---- MODULE Spec2Model ----
(***************************************************************************)
(* Model of the Shopify import pipeline of                                 *)
(* saleor/graphql/product/bulk_mutations/products.py                       *)
(* (ProductBulkCreateFromShopify), of the client constructor in            *)
(* saleor/third/shopify/__init__.py, and of the variant and stock          *)
(* mutations of the same file (ProductVariantBulkCreate,                   *)
(* ProductVariantBulkDelete, ProductVariantStocksCreate,                   *)
(* ProductVariantStocksUpdate, ProductVariantStocksDelete).                *)
(*                                                                         *)
(* Strings are sequences of one-character strings, so that lower(),        *)
(* replace(), str() and the shop-url pattern are computed character by     *)
(* character.  Database tables are sets of rows; a primary key is the      *)
(* largest key of the table plus one.  Columns that no operation of the    *)
(* importer reads back (slug, description, publication flags) are left     *)
(* out of the rows.                                                        *)
(***************************************************************************)
EXTENDS Integers, Sequences, FiniteSets, TLC

(***************************************************************************)
(* Python values                                                           *)
(***************************************************************************)
\* None, as a value that is no string
None == <<"None">>

\* bool(x) of a value that is None or a string
Truthy(x) == x # None /\ x # <<>>

ToLower ==
    [S |-> "s", I |-> "i", Z |-> "z", E |-> "e", C |-> "c", O |-> "o",
     L |-> "l", R |-> "r", N |-> "n", B |-> "b", M |-> "m"]

LowerChar(c) == IF c \in DOMAIN ToLower THEN ToLower[c] ELSE c

\* str.lower()
Lower(s) == [i \in DOMAIN s |-> LowerChar(s[i])]

\* str.replace(old, new) for one-character old and new
Replace(s, old, new) == [i \in DOMAIN s |-> IF s[i] = old THEN new ELSE s[i]]

Digits == <<"0", "1", "2", "3", "4", "5", "6", "7", "8", "9">>

RECURSIVE Str(_)
\* str(n) of a natural number
Str(n) == IF n < 10 THEN <<Digits[n + 1]>>
          ELSE Str(n \div 10) \o <<Digits[(n % 10) + 1]>>

IsDigit(c) == \E i \in DOMAIN Digits : Digits[i] = c

\* Decimal(s) succeeds: digits with at most one decimal point (the numeric
\* strings of the remote price field); anything else raises InvalidOperation
ValidDecimal(s) ==
    /\ \E i \in DOMAIN s : IsDigit(s[i])
    /\ \A i \in DOMAIN s : IsDigit(s[i]) \/ s[i] = "."
    /\ Cardinality({i \in DOMAIN s : s[i] = "."}) <= 1

IsPrefix(p, s) == Len(p) <= Len(s) /\ SubSeq(s, 1, Len(p)) = p

Drop(s, n) == SubSeq(s, n + 1, Len(s))

(***************************************************************************)
(* saleor/third/shopify/__init__.py                                        *)
(***************************************************************************)
\* "(.*?)/?$" : no newline, except one that ends the string
RestMatches(rest) ==
    LET body == IF Len(rest) > 0 /\ rest[Len(rest)] = "\n"
                THEN SubSeq(rest, 1, Len(rest) - 1) ELSE rest
    IN \A i \in DOMAIN body : body[i] # "\n"

\* re.match(r"https?://(.*?)/?$", shop_url)
UrlMatch(shop_url) ==
    LET http == <<"h", "t", "t", "p">>
        sep == <<":", "/", "/">>
    IN \/ /\ IsPrefix(http \o sep, shop_url)
          /\ RestMatches(Drop(shop_url, 7))
       \/ /\ IsPrefix(http \o <<"s">> \o sep, shop_url)
          /\ RestMatches(Drop(shop_url, 8))

\* Shopify.__init__ without the check of the access token
ShopifyInitUrlOnly(shop_url, access_token) ==
    IF ~UrlMatch(shop_url) THEN "ValidationError" ELSE "ok"

\* Shopify.__init__: the exception raised, or "ok" when the session is activated
ShopifyInit(shop_url, access_token) ==
    IF ~UrlMatch(shop_url) THEN "ValidationError"
    ELSE IF ~Truthy(access_token) THEN "ValidationError"
    ELSE "ok"

(***************************************************************************)
(* Fixed configuration of ProductBulkCreateFromShopify                     *)
(***************************************************************************)
DEF_PRODUCT_TYPE_ID == 16
DEF_PRODUCT_CATEGORY_ID == 24
DEF_SIZE_ATTRIBUTE_ID == 13
DEF_COLOR_ATTRIBUTE_ID == 14
DEF_WAREHOUSE_ID == "74b279b5-77a5-49d3-9ba6-789eac7a2829"
DEF_MENU_ITEM_ID == 20
NAVBAR == "navbar"

\* the two attributes the importer resolves values of
SizeAndColor == {DEF_SIZE_ATTRIBUTE_ID, DEF_COLOR_ATTRIBUTE_ID}

\* the entities the configuration refers to
AllFixtures ==
    [ProductType |-> {DEF_PRODUCT_TYPE_ID},
     Category |-> {DEF_PRODUCT_CATEGORY_ID},
     Attribute |-> {DEF_SIZE_ATTRIBUTE_ID, DEF_COLOR_ATTRIBUTE_ID},
     Warehouse |-> {DEF_WAREHOUSE_ID},
     Menu |-> {NAVBAR},
     MenuItem |-> {DEF_MENU_ITEM_ID}]

\* the databases the importer can be started on: all configured entities
\* exist, or one of them is missing
Missing(kind, pk) == [AllFixtures EXCEPT ![kind] = @ \ {pk}]

FixtureSets ==
    { AllFixtures,
      Missing("ProductType", DEF_PRODUCT_TYPE_ID),
      Missing("Category", DEF_PRODUCT_CATEGORY_ID),
      Missing("Attribute", DEF_SIZE_ATTRIBUTE_ID),
      Missing("Attribute", DEF_COLOR_ATTRIBUTE_ID),
      Missing("Warehouse", DEF_WAREHOUSE_ID),
      Missing("Menu", NAVBAR),
      Missing("MenuItem", DEF_MENU_ITEM_ID) }

(***************************************************************************)
(* The remote shop: what get_collection and get_collection_products return *)
(***************************************************************************)
NB1 == <<"N", " ", "B">>
NB2 == <<"N", " ", " ", "B">>
NBh == <<"N", "-", "B">>
Opt(name, position) == [name |-> name, position |-> position]
Var(sku, price, o1, o2, o3, qty) ==
    [sku |-> sku, price |-> price, weight |-> 2, weight_unit |-> "g",
     option |-> <<o1, o2, o3>>, inventory_quantity |-> qty]

RemoteProducts ==
    <<
      \* three options, size and color in slots 3 and 2; variants 2 and 3
      \* lack a sku and a price
      [id |-> 1, title |-> <<"a">>,
       options |-> << Opt(<<"M", "a", "t">>, 1), Opt(<<"c", "o", "l", "o", "r">>, 2),
                      Opt(<<"S", "I", "Z", "E">>, 3) >>,
       variants |-> << Var(<<"A", "1">>, <<"1", "0">>, <<"x">>, NB1, <<"S">>, 5),
                       Var(None, <<"1", "0">>, <<"x">>, NBh, <<"M">>, 7),
                       Var(<<"A", "3">>, <<>>, <<"x">>, NB1, <<"L">>, 1),
                       Var(<<"A", "4">>, <<"1", ".", "5">>, <<"x">>, NB2, <<"S">>, 0),
                       Var(<<"A", "5">>, <<"3">>, <<"x">>, NBh, <<"M">>, 2) >>,
       images |-> << <<"u", "1">>, <<"u", "2">> >>],
      \* no size option
      [id |-> 2, title |-> <<"b">>,
       options |-> << Opt(<<"C", "o", "l", "o", "r">>, 1) >>,
       variants |-> << Var(<<"B", "1">>, <<"4">>, <<"R">>, None, None, 3) >>,
       images |-> << <<"u", "3">> >>],
      \* no color option
      [id |-> 3, title |-> <<"c">>,
       options |-> << Opt(<<"s", "i", "z", "e">>, 1), Opt(<<"M", "a", "t">>, 2) >>,
       variants |-> << Var(<<"D", "1">>, <<"9">>, <<"X">>, <<"x">>, None, 6) >>,
       images |-> << >>],
      \* both options; the price of the second variant is no number
      [id |-> 4, title |-> <<"d">>,
       options |-> << Opt(<<"S", "i", "z", "e">>, 1), Opt(<<"C", "O", "L", "O", "R">>, 2) >>,
       variants |-> << Var(<<"E", "1">>, <<"7">>, <<"S">>, <<"G">>, None, 4),
                       Var(<<"E", "2">>, <<"x">>, <<"M">>, <<"G">>, None, 1) >>,
       images |-> << <<"u", "4">> >>]
    >>

RemoteIds == {RemoteProducts[i].id : i \in DOMAIN RemoteProducts}

RemoteProduct(id) ==
    RemoteProducts[CHOOSE i \in DOMAIN RemoteProducts : RemoteProducts[i].id = id]

\* what get_collection can return: an id and the title it has at that time
RemoteCollections ==
    { [id |-> 7, title |-> <<"S">>],
      [id |-> 8, title |-> <<"s">>],
      [id |-> 8, title |-> <<"S", "(", "2", ")">>] }

RemoteCollectionIds == {c.id : c \in RemoteCollections}

ShopUrls ==
    { <<"h", "t", "t", "p", "s", ":", "/", "/", "x">>,
      <<"h", "t", "t", "p", ":", "/", "/", "x", "/">>,
      <<"h", "t", "t", "p", ":", "/", "/">>,
      <<"x", ".", "c", "o", "m">>,
      <<"f", "t", "p", ":", "/", "/", "x">>,
      <<"h", "t", "t", "p", "s", ":", "/", "x">>,
      <<"h", "t", "t", "p", "s", ":", "/", "/", "x", "\n", "y">>,
      <<>> }

AccessTokens == { None, <<>>, <<"t">> }

\* bound of the model: imports start while fewer collections than this exist
MaxCollections == 2

Injective(s) == \A i, j \in DOMAIN s : s[i] = s[j] => i = j

\* the product lists a remote collection can hold: distinct products of the
\* shop, in any order
Batches(ids) ==
    {s \in UNION {[1..n -> ids] : n \in 0..Cardinality(ids)} : Injective(s)}

\* names of collections made by hand before any import
HandMadeNames == { <<"S">>, <<"S", "(", "2", ")">>, <<"s", "(", "3", ")">> }

(***************************************************************************)
(* State                                                                   *)
(***************************************************************************)
VARIABLES
    remote,              \* the remote shop: the ids of its products, its collections
    fixtures,            \* the configured entities that exist
    db,                  \* the committed tables
    size_color_cache,    \* class attribute: attribute id -> cache entry
    def_warehouse_cache, \* class attribute: None or the warehouse
    pc,                  \* position of perform_mutation
    run,                 \* locals of the running (or last) perform_mutation
    result,              \* how the last perform_mutation ended
    tasks,               \* create_product_images_from_url.delay calls
    before,              \* history: db when the last run started
    okRuns,              \* history: successful runs per remote collection
    call,                \* the running (or last) mutation other than the import
    workers              \* server processes that run create_attribute_values at the same time

vars == <<remote, fixtures, db, size_color_cache, def_warehouse_cache, pc, run, result,
          tasks, before, okRuns, call, workers>>

\* what the import does not touch
others == <<call, workers>>

NoCall == [op |-> "none"]

NoWorkers == <<>>

EmptyDb ==
    [attribute_values |-> {}, products |-> {}, variants |-> {},
     assigned_values |-> {}, stocks |-> {}, collections |-> {},
     collection_products |-> {}, menu_items |-> {}]

NoCollection == [id |-> 0, title |-> <<>>]

NoRun ==
    [shop_url |-> None, access_token |-> None,
     session |-> FALSE, calls |-> {}, collection |-> NoCollection, fetched |-> <<>>,
     exist_products |-> <<>>, shopify_products |-> <<>>, products |-> <<>>,
     product_images |-> <<>>]

NoResult == [outcome |-> "none", raised_in |-> "none"]

Raised(exception, where) == [outcome |-> exception, raised_in |-> where]

RECURSIVE HandMade(_)
\* collection rows without a shopifyid, one per name
HandMade(names) ==
    IF names = {} THEN {}
    ELSE LET n == CHOOSE x \in names : TRUE
             rest == HandMade(names \ {n})
         IN rest \cup {[id |-> Cardinality(rest) + 1, name |-> n, shopifyid |-> None]}

\* the shops the importer is run against: one whose products all have
\* numeric prices, one with a product whose price is no number, both with
\* one collection and a catalog without collections; and one without
\* products, with a catalog that has collections made by hand
Init ==
    /\ fixtures \in FixtureSets
    /\ \/ /\ remote \in {[products |-> ids,
                           collections |-> {c \in RemoteCollections : c.id = 7}] :
                              ids \in {{1, 2, 3}, {2, 3, 4}}}
          /\ db = EmptyDb
       \/ /\ remote = [products |-> {}, collections |-> RemoteCollections]
          /\ \E names \in SUBSET HandMadeNames :
                db = [EmptyDb EXCEPT !.collections = HandMade(names)]
    /\ size_color_cache = <<>>
    /\ def_warehouse_cache = None
    /\ pc = "idle"
    /\ run = NoRun
    /\ result = NoResult
    /\ tasks = <<>>
    /\ before = db
    /\ okRuns = [c \in RemoteCollectionIds |-> 0]
    /\ call = NoCall
    /\ workers = NoWorkers

\* Model.objects.get(pk=pk) finds a row
Exists(kind, pk) == pk \in fixtures[kind]

\* the next primary key of a table
NextId(rows, key) ==
    IF rows = {} THEN 1
    ELSE 1 + (CHOOSE m \in {r[key] : r \in rows} : \A r \in rows : r[key] <= m)

RECURSIVE SortedByKey(_, _)
\* the rows of a table in primary-key order
SortedByKey(rows, key) ==
    IF rows = {} THEN <<>>
    ELSE LET first == CHOOSE r \in rows : \A q \in rows : r[key] <= q[key]
         IN <<first>> \o SortedByKey(rows \ {first}, key)

Range(s) == {s[i] : i \in DOMAIN s}

(***************************************************************************)
(* Attribute resolver and cache                                            *)
(***************************************************************************)
\* A cached "values" queryset: filter(attribute_id=..) | filter(pk=..) | ...
\* It is lazy: iterator() runs the query against the tables as they are.
Iterator(values, table) ==
    SortedByKey({v \in table : v.attribute = values.attribute_id \/ v.pk \in values.pks},
                "pk")

\* the generator with "v == name" for "v.name == name": no row is a string
NextNamedByRow(rows, name) == 0

\* next(v for v in rows if v.name == name): its index, 0 on StopIteration
NextNamed(rows, name) ==
    IF \E i \in DOMAIN rows : rows[i].name = name
    THEN CHOOSE i \in DOMAIN rows :
            /\ rows[i].name = name
            /\ \A j \in 1..(i - 1) : rows[j].name # name
    ELSE 0

RECURSIVE SkipSpaces(_)
SkipSpaces(s) == IF s # <<>> /\ Head(s) = " " THEN SkipSpaces(Tail(s)) ELSE s

RECURSIVE CollapseRuns(_)
\* every run of spaces replaced by one hyphen
CollapseRuns(s) ==
    IF s = <<>> THEN <<>>
    ELSE IF Head(s) = " " THEN <<"-">> \o CollapseRuns(SkipSpaces(s))
    ELSE <<Head(s)>> \o CollapseRuns(Tail(s))

\* a normalization that collapses runs of spaces
NormalizeCollapsing(val) == CollapseRuns(val)

\* val.replace(' ', '-')
Normalize(val) == Replace(val, " ", "-")

RECURSIVE CreateValuesLoopRaw(_, _, _, _)
\* the for loop with the lookup made before the replace
CreateValuesLoopRaw(st, attribute_id, values, i) ==
    IF i > Len(values) THEN st
    ELSE
      LET val == Normalize(values[i])
          entry == st.cache[attribute_id]
          rows == Iterator(entry.values, st.db.attribute_values)
          exist_attr_val == NextNamed(rows, values[i])
          new_pk == NextId(st.db.attribute_values, "pk")
          created ==
              [st EXCEPT
                 !.db.attribute_values =
                     @ \cup {[pk |-> new_pk, attribute |-> entry.attribute, name |-> val]},
                 !.cache[attribute_id].values.pks = @ \cup {new_pk}]
      IN CreateValuesLoopRaw(IF exist_attr_val = 0 THEN created ELSE st,
                             attribute_id, values, i + 1)

RECURSIVE CreateValuesLoop(_, _, _, _)
\* the for loop of create_attribute_values over values[i..]
CreateValuesLoop(st, attribute_id, values, i) ==
    IF i > Len(values) THEN st
    ELSE
      LET val == Normalize(values[i])
          entry == st.cache[attribute_id]
          rows == Iterator(entry.values, st.db.attribute_values)
          exist_attr_val == NextNamed(rows, val)
          new_pk == NextId(st.db.attribute_values, "pk")
          created ==
              [st EXCEPT
                 !.db.attribute_values =
                     @ \cup {[pk |-> new_pk, attribute |-> entry.attribute, name |-> val]},
                 !.cache[attribute_id].values.pks = @ \cup {new_pk}]
      IN CreateValuesLoop(IF exist_attr_val = 0 THEN created ELSE st,
                          attribute_id, values, i + 1)

\* create_attribute_values(attribute_id, values) on st = [db, cache, wh, err]
create_attribute_values(st, attribute_id, values) ==
    IF attribute_id \notin DOMAIN st.cache /\ ~Exists("Attribute", attribute_id)
    THEN [st EXCEPT !.err = "DoesNotExist"]
    ELSE
      LET entry == [attribute |-> attribute_id,
                    values |-> [attribute_id |-> attribute_id, pks |-> {}]]
          loaded == IF attribute_id \in DOMAIN st.cache THEN st
                    ELSE [st EXCEPT !.cache = (attribute_id :> entry) @@ @]
      IN CreateValuesLoop(loaded, attribute_id, values, 1)

\* get_attribute_value(attribute_id, value): [err, attribute, value]
get_attribute_value(st, attribute_id, value) ==
    LET name == Normalize(value)
    IN IF attribute_id \notin DOMAIN st.cache
       THEN [err |-> "KeyError", attribute |-> 0, value |-> 0]
       ELSE
         LET entry == st.cache[attribute_id]
             rows == Iterator(entry.values, st.db.attribute_values)
             k == NextNamed(rows, name)
         IN IF k = 0
            THEN [err |-> "StopIteration", attribute |-> 0, value |-> 0]
            ELSE [err |-> "ok", attribute |-> entry.attribute, value |-> rows[k].pk]

\* get_default_warehouse() on st: st with the cache filled, or the error
get_default_warehouse(st) ==
    IF Truthy(st.wh) THEN st
    ELSE IF Exists("Warehouse", DEF_WAREHOUSE_ID)
         THEN [st EXCEPT !.wh = <<DEF_WAREHOUSE_ID>>]
         ELSE [st EXCEPT !.err = "DoesNotExist"]

(***************************************************************************)
(* Variant materializer                                                    *)
(***************************************************************************)
RECURSIVE SizeColorLoop(_, _, _, _)
SizeColorLoop(options, i, size_attr_index, color_attr_index) ==
    IF i > Len(options) THEN <<size_attr_index, color_attr_index>>
    ELSE LET name == Lower(options[i].name)
         IN IF name = <<"c", "o", "l", "o", "r">>
            THEN SizeColorLoop(options, i + 1, size_attr_index, options[i].position)
            ELSE IF name = <<"s", "i", "z", "e">>
            THEN SizeColorLoop(options, i + 1, options[i].position, color_attr_index)
            ELSE SizeColorLoop(options, i + 1, size_attr_index, color_attr_index)

\* get_size_color_index with 1 for the index of an option that is not there
get_size_color_index_from_1(product) == SizeColorLoop(product.options, 1, 1, 1)

\* get_size_color_index(product): <<size_attr_index, color_attr_index>>
get_size_color_index(product) == SizeColorLoop(product.options, 1, 0, 0)

\* "not (size_attr_index > 0 and color_attr_index > 0)" is false
HasBothSlots(product) ==
    LET idx == get_size_color_index(product)
    IN idx[1] > 0 /\ idx[2] > 0

\* the skip test with "or" for "and"
HasSkuOrPrice(variant) == Truthy(variant.sku) \/ Truthy(variant.price)

\* "not (variant.sku and variant.price)" is false
HasSkuAndPrice(variant) == Truthy(variant.sku) /\ Truthy(variant.price)

\* create_variants without its bulk_create
BulkCreateNothing(stocks, new_stocks, i) == stocks

RECURSIVE BulkCreateStocks(_, _, _)
\* Stock.objects.bulk_create(new_stocks): one row per element, in order
BulkCreateStocks(stocks, new_stocks, i) ==
    IF i > Len(new_stocks) THEN stocks
    ELSE BulkCreateStocks(
           stocks \cup {[id |-> NextId(stocks, "id"),
                         warehouse |-> new_stocks[i].warehouse,
                         product_variant |-> new_stocks[i].product_variant,
                         quantity |-> new_stocks[i].quantity]},
           new_stocks, i + 1)

RECURSIVE VariantsLoop(_, _, _, _, _, _)
\* the for loop of create_variants over shopify_product.variants[i..]
VariantsLoop(st, product, shopify_product, idx, i, new_stocks) ==
    IF i > Len(shopify_product.variants)
    THEN [st EXCEPT !.db.stocks = BulkCreateStocks(@, new_stocks, 1)]
    ELSE
      LET variant == shopify_product.variants[i]
          size == get_attribute_value(st, DEF_SIZE_ATTRIBUTE_ID, variant.option[idx[1]])
          color == get_attribute_value(st, DEF_COLOR_ATTRIBUTE_ID, variant.option[idx[2]])
          new_variant ==
              [id |-> NextId(st.db.variants, "id"), product |-> product,
               sku |-> variant.sku, price_amount |-> variant.price,
               weight |-> <<variant.weight, variant.weight_unit>>]
          saved == [st EXCEPT !.db.variants = @ \cup {new_variant}]
          housed == get_default_warehouse(saved)
          new_stock == [warehouse |-> housed.wh[1], product_variant |-> new_variant.id,
                        quantity |-> variant.inventory_quantity]
          associated ==
              [housed EXCEPT !.db.assigned_values = @ \cup
                  { [variant |-> new_variant.id, attribute |-> size.attribute,
                     value |-> size.value],
                    [variant |-> new_variant.id, attribute |-> color.attribute,
                     value |-> color.value] }]
      IN IF ~HasSkuAndPrice(variant)
         THEN VariantsLoop(st, product, shopify_product, idx, i + 1, new_stocks)
         ELSE IF ~ValidDecimal(variant.price)
         THEN [st EXCEPT !.err = "InvalidOperation"]
         ELSE IF size.err # "ok" THEN [st EXCEPT !.err = size.err]
         ELSE IF color.err # "ok" THEN [st EXCEPT !.err = color.err]
         ELSE IF housed.err # "ok" THEN housed
         ELSE VariantsLoop(associated, product, shopify_product, idx, i + 1,
                           Append(new_stocks, new_stock))

\* create_variants(product, shopify_product) on st
create_variants(st, product, shopify_product) ==
    IF ~HasBothSlots(shopify_product) THEN st
    ELSE VariantsLoop(st, product, shopify_product,
                      get_size_color_index(shopify_product), 1, <<>>)

(***************************************************************************)
(* Attribute seeding                                                       *)
(***************************************************************************)
AppendNew(list, x) == IF x \in Range(list) THEN list ELSE Append(list, x)

RECURSIVE OptionValues(_, _, _, _)
\* the values of option slot `slot` over variants[i..], first occurrences
OptionValues(variants, slot, i, acc) ==
    IF i > Len(variants) THEN acc
    ELSE OptionValues(variants, slot, i + 1, AppendNew(acc, variants[i].option[slot]))

RECURSIVE ColorSizeValues(_, _, _, _)
\* the loop of create_color_sizes: <<size_values, color_values>>
ColorSizeValues(shopify_products, i, size_values, color_values) ==
    IF i > Len(shopify_products) THEN <<size_values, color_values>>
    ELSE
      LET spd == shopify_products[i]
          idx == get_size_color_index(spd)
      IN IF ~HasBothSlots(spd)
         THEN ColorSizeValues(shopify_products, i + 1, size_values, color_values)
         ELSE ColorSizeValues(shopify_products, i + 1,
                              OptionValues(spd.variants, idx[1], 1, size_values),
                              OptionValues(spd.variants, idx[2], 1, color_values))

\* create_color_sizes without its second call
create_color_sizes_size_only(st, shopify_products) ==
    create_attribute_values(st, DEF_SIZE_ATTRIBUTE_ID,
                            ColorSizeValues(shopify_products, 1, <<>>, <<>>)[1])

\* create_color_sizes(shopify_products) on st
create_color_sizes(st, shopify_products) ==
    LET vals == ColorSizeValues(shopify_products, 1, <<>>, <<>>)
        sized == create_attribute_values(st, DEF_SIZE_ATTRIBUTE_ID, vals[1])
    IN IF sized.err # "ok" THEN sized
       ELSE create_attribute_values(sized, DEF_COLOR_ATTRIBUTE_ID, vals[2])

(***************************************************************************)
(* Product materializer                                                    *)
(***************************************************************************)
RECURSIVE ImageSrcs(_, _)
ImageSrcs(images, i) ==
    IF i > Len(images) THEN <<>> ELSE <<images[i]>> \o ImageSrcs(images, i + 1)

RECURSIVE ProductsLoop(_, _, _)
\* the for loop of create_products over shopify_products[i..]
ProductsLoop(st, shopify_products, i) ==
    IF i > Len(shopify_products) THEN st
    ELSE
      LET spa == shopify_products[i]
          new_product == [id |-> NextId(st.db.products, "id"), name |-> spa.title,
                          shopifyid |-> Str(spa.id), default_variant |-> 0]
          created == [st EXCEPT !.db.products = @ \cup {new_product}]
          varied == create_variants(created, new_product.id, spa)
          appended ==
              [varied EXCEPT
                 !.products = Append(@, new_product.id),
                 !.product_images = (new_product.id :> ImageSrcs(spa.images, 1)) @@ @]
      IN IF varied.err # "ok" THEN varied
         ELSE ProductsLoop(appended, shopify_products, i + 1)

\* the body of create_products, before the transaction ends
CreateProductsBody(st, shopify_products) ==
    IF ~Exists("ProductType", DEF_PRODUCT_TYPE_ID) THEN [st EXCEPT !.err = "DoesNotExist"]
    ELSE IF ~Exists("Category", DEF_PRODUCT_CATEGORY_ID)
    THEN [st EXCEPT !.err = "DoesNotExist"]
    ELSE ProductsLoop(st, shopify_products, 1)

\* no transaction: what the body wrote stays
NotAtomic(st, done) == done

\* transaction.atomic: the tables of `done` are committed when the body
\* returned, and those of `st` are kept when it raised
Atomic(st, done) == IF done.err = "ok" THEN done ELSE [done EXCEPT !.db = st.db]

\* create_products(shopify_products) on st
create_products(st, shopify_products) ==
    Atomic(st, CreateProductsBody(st, shopify_products))

(***************************************************************************)
(* Collection synchronizer                                                 *)
(***************************************************************************)
\* the candidate name of round i of the while loop of create_collection
CollectionNameAt(title, i) ==
    IF i = 1 THEN title ELSE title \o <<"(">> \o Str(i) \o <<")">>

\* the comparison of names without lower()
NameTakenCaseSensitive(collections, collection_name) ==
    \E c \in collections : c.name = collection_name

\* "collection" of one round is not None: a collection has that name, lower-cased
NameTaken(collections, collection_name) ==
    \E c \in collections : Lower(c.name) = Lower(collection_name)

\* an "if" for the "while": one retry, with (2)
CollectionNameOnce(collections, title, i) ==
    IF ~NameTaken(collections, title) THEN title ELSE CollectionNameAt(title, 2)

RECURSIVE CollectionNameLoop(_, _, _)
\* the while loop of create_collection from round i on: the name it ends with
CollectionNameLoop(collections, title, i) ==
    IF ~NameTaken(collections, CollectionNameAt(title, i))
    THEN CollectionNameAt(title, i)
    ELSE CollectionNameLoop(collections, title, i + 1)

RECURSIVE BulkCreateCollectionProducts(_, _, _, _)
\* CollectionProduct.objects.bulk_create(collection_products)
BulkCreateCollectionProducts(rows, collection, products, i) ==
    IF i > Len(products) THEN rows
    ELSE BulkCreateCollectionProducts(
           rows \cup {[id |-> NextId(rows, "id"), collection |-> collection,
                       product |-> products[i]]},
           collection, products, i + 1)

\* create_menu_item(collection) on st
create_menu_item(st, collection) ==
    IF ~Exists("Menu", NAVBAR) THEN [st EXCEPT !.err = "DoesNotExist"]
    ELSE IF ~Exists("MenuItem", DEF_MENU_ITEM_ID)
    THEN [st EXCEPT !.err = "IntegrityError"]
    ELSE [st EXCEPT !.db.menu_items = @ \cup
            {[id |-> NextId(st.db.menu_items, "id"), name |-> collection.name,
              menu |-> NAVBAR, collection |-> collection.id,
              parent |-> DEF_MENU_ITEM_ID]}]

\* the body of create_collection, before the transaction ends
CreateCollectionBody(st, shopify_collection, products) ==
    LET collection_name ==
            CollectionNameLoop(st.db.collections, shopify_collection.title, 1)
        new_collection ==
            [id |-> NextId(st.db.collections, "id"), name |-> collection_name,
             shopifyid |-> Str(shopify_collection.id)]
        attached ==
            [st EXCEPT
               !.db.collections = @ \cup {new_collection},
               !.db.collection_products =
                   BulkCreateCollectionProducts(@, new_collection.id, products, 1)]
    IN create_menu_item(attached, new_collection)

\* create_collection without its transaction
create_collection_not_atomic(st, shopify_collection, products) ==
    CreateCollectionBody(st, shopify_collection, products)

\* create_collection(shopify_collection, products) on st
create_collection(st, shopify_collection, products) ==
    Atomic(st, CreateCollectionBody(st, shopify_collection, products))

(***************************************************************************)
(* Import orchestrator: perform_mutation, one action per statement group   *)
(***************************************************************************)
\* get_product_by_shopify_id(ids), evaluated: the rows in primary-key order
get_product_by_shopify_id(products, shopify_product_ids) ==
    SortedByKey({p \in products : p.shopifyid \in Range(shopify_product_ids)}, "id")

\* no filter: every fetched product is taken as new
FilterNothing(shopify_products, exist_product_ids, i) ==
    SubSeq(shopify_products, i, Len(shopify_products))

RECURSIVE Filter(_, _, _)
\* list(filter(lambda p: str(p.id) not in exist_product_ids, shopify_products))
Filter(shopify_products, exist_product_ids, i) ==
    IF i > Len(shopify_products) THEN <<>>
    ELSE (IF Str(shopify_products[i]) \in exist_product_ids
          THEN <<>> ELSE <<shopify_products[i]>>)
         \o Filter(shopify_products, exist_product_ids, i + 1)

Local == [db |-> db, cache |-> size_color_cache, wh |-> def_warehouse_cache,
          err |-> "ok", products |-> <<>>, product_images |-> <<>>]

Records(ids) == [i \in DOMAIN ids |-> RemoteProduct(ids[i])]

Ids(rows) == [i \in DOMAIN rows |-> rows[i].id]

\* only the products of this run
ProductsCreatedOnly(products, exist_products) == products

\* the products to attach (line 378): products + list(exist_products)
ProductsToAttach(products, exist_products) == products \o Ids(exist_products)

Imported(collections) == {c \in collections : c.shopifyid # None}

\* line 364: Shopify(data["shop_url"], data["access_token"])
Construct ==
    /\ pc = "idle"
    /\ Cardinality(Imported(db.collections)) < MaxCollections
    /\ \E shop_url \in ShopUrls, access_token \in AccessTokens :
          LET made == ShopifyInit(shop_url, access_token)
              args == [NoRun EXCEPT !.shop_url = shop_url, !.access_token = access_token]
          IN IF made # "ok"
             THEN /\ run' = args
                  /\ result' = Raised(made, "Shopify.__init__")
                  /\ pc' = "done"
             ELSE /\ run' = [args EXCEPT !.session = TRUE]
                  /\ result' = Raised("running", "none")
                  /\ pc' = "fetch"
    /\ before' = db
    /\ UNCHANGED <<remote, fixtures, db, size_color_cache, def_warehouse_cache, tasks,
                   okRuns>>
    /\ UNCHANGED others

\* lines 365-374: the two remote reads and the split of the product list;
\* the arguments are not read again
Fetch ==
    /\ pc = "fetch"
    /\ \E shopify_collection \in remote.collections, fetched \in Batches(remote.products) :
          LET shopify_product_ids == [i \in DOMAIN fetched |-> Str(fetched[i])]
              exist_products ==
                  get_product_by_shopify_id(db.products, shopify_product_ids)
              exist_product_ids ==
                  {exist_products[i].shopifyid : i \in DOMAIN exist_products}
          IN run' = [shop_url |-> None, access_token |-> None,
                     session |-> TRUE,
                     calls |-> {"get_collection", "get_collection_products"},
                     collection |-> shopify_collection,
                     fetched |-> fetched,
                     exist_products |-> exist_products,
                     shopify_products |-> Filter(fetched, exist_product_ids, 1),
                     products |-> <<>>,
                     product_images |-> <<>>]
    /\ pc' = "create_color_sizes"
    /\ UNCHANGED <<remote, fixtures, db, size_color_cache, def_warehouse_cache, result,
                   tasks, before, okRuns>>
    /\ UNCHANGED others

\* line 376
CreateColorSizes ==
    /\ pc = "create_color_sizes"
    /\ LET st == create_color_sizes(Local, Records(run.shopify_products))
       IN /\ db' = st.db
          /\ size_color_cache' = st.cache
          /\ IF st.err = "ok"
             THEN pc' = "create_products" /\ UNCHANGED result
             ELSE pc' = "done" /\ result' = Raised(st.err, "create_color_sizes")
    /\ UNCHANGED <<remote, fixtures, def_warehouse_cache, run, tasks, before, okRuns>>
    /\ UNCHANGED others

\* line 377
CreateProducts ==
    /\ pc = "create_products"
    /\ LET st == create_products(Local, Records(run.shopify_products))
       IN /\ db' = st.db
          /\ def_warehouse_cache' = st.wh
          /\ IF st.err = "ok"
             THEN /\ pc' = "create_collection"
                  /\ run' = [run EXCEPT !.products = st.products,
                                        !.product_images = st.product_images]
                  /\ UNCHANGED result
             ELSE /\ pc' = "done"
                  /\ result' = Raised(st.err, "create_products")
                  /\ UNCHANGED run
    /\ UNCHANGED <<remote, fixtures, size_color_cache, tasks, before, okRuns>>
    /\ UNCHANGED others

\* line 378
CreateCollection ==
    /\ pc = "create_collection"
    /\ LET st == create_collection(Local, run.collection,
                                   ProductsToAttach(run.products, run.exist_products))
       IN /\ db' = st.db
          /\ IF st.err = "ok"
             THEN pc' = "create_product_images" /\ UNCHANGED result
             ELSE pc' = "done" /\ result' = Raised(st.err, "create_collection")
    /\ UNCHANGED <<remote, fixtures, size_color_cache, def_warehouse_cache, run, tasks,
                   before, okRuns>>
    /\ UNCHANGED others

\* create_product_images(products, product_images)
create_product_images(queue, products, product_images) ==
    queue \o [i \in DOMAIN products |->
                [product_id |-> products[i], image_urls |-> product_images[products[i]]]]

\* lines 379-381
CreateProductImages ==
    /\ pc = "create_product_images"
    /\ tasks' = create_product_images(tasks, run.products, run.product_images)
    /\ result' = Raised("ok", "none")
    /\ pc' = "done"
    /\ okRuns' = [okRuns EXCEPT ![run.collection.id] = @ + 1]
    /\ UNCHANGED <<remote, fixtures, db, size_color_cache, def_warehouse_cache, run, before>>
    /\ UNCHANGED others

\* perform_mutation has returned or raised: its locals are gone
Return ==
    /\ pc = "done"
    /\ pc' = "idle"
    /\ run' = NoRun
    /\ result' = NoResult
    /\ before' = db
    /\ call' = NoCall
    /\ UNCHANGED <<remote, fixtures, db, size_color_cache, def_warehouse_cache, tasks, okRuns,
                   workers>>

Next ==
    \/ Construct
    \/ Fetch
    \/ CreateColorSizes
    \/ CreateProducts
    \/ CreateCollection
    \/ CreateProductImages
    \/ Return

Spec == Init /\ [][Next]_vars

(***************************************************************************)
(* get_attribute_value called on its own, on any table and cache           *)
(***************************************************************************)
\* names of attribute values in the table, and option strings asked for
ResolverNames == { NBh, <<"N", "-", "-", "B">>, <<"S">> }

ResolverValues == { NB1, NB2, NBh, <<"S">>, <<"M">> }

RECURSIVE ValueRows(_)
\* AttributeValue rows, one per <<attribute, name>>
ValueRows(pairs) ==
    IF pairs = {} THEN {}
    ELSE LET x == CHOOSE y \in pairs : TRUE
             rest == ValueRows(pairs \ {x})
         IN rest \cup {[pk |-> Cardinality(rest) + 1, attribute |-> x[1], name |-> x[2]]}

\* a cache entry as lines 146-152 make it
CacheEntry(attribute_id) ==
    [attribute |-> attribute_id, values |-> [attribute_id |-> attribute_id, pks |-> {}]]

\* size_color_cache with the entries of `ids`
CacheOf(ids) == [attribute_id \in ids |-> CacheEntry(attribute_id)]

InitResolver ==
    /\ fixtures = AllFixtures
    /\ remote = [products |-> {}, collections |-> {}]
    /\ \E pairs \in SUBSET (SizeAndColor \X ResolverNames) :
          db = [EmptyDb EXCEPT !.attribute_values = ValueRows(pairs)]
    /\ \E ids \in SUBSET SizeAndColor : size_color_cache = CacheOf(ids)
    /\ def_warehouse_cache = None
    /\ pc = "idle"
    /\ run = NoRun
    /\ result = NoResult
    /\ tasks = <<>>
    /\ before = db
    /\ okRuns = [c \in RemoteCollectionIds |-> 0]
    /\ call = NoCall
    /\ workers = NoWorkers

\* lines 173-184, one call
GetAttributeValue ==
    /\ pc = "idle"
    /\ \E attribute_id \in SizeAndColor, value \in ResolverValues :
          LET got == get_attribute_value(Local, attribute_id, value)
          IN /\ call' = [op |-> "get_attribute_value", attribute_id |-> attribute_id,
                         value |-> value, returned |-> <<got.attribute, got.value>>]
             /\ result' = Raised(got.err, "get_attribute_value")
    /\ pc' = "done"
    /\ UNCHANGED <<remote, fixtures, db, size_color_cache, def_warehouse_cache, run, tasks,
                   before, okRuns, workers>>

NextResolver ==
    \/ GetAttributeValue
    \/ Return

SpecResolver == InitResolver /\ [][NextResolver]_vars

(***************************************************************************)
(* The catalog the other mutations run on: the importer's, with a second   *)
(* warehouse                                                               *)
(***************************************************************************)
OTHER_WAREHOUSE_ID == "w2"

\* bound of the model: variants are created in bulk while the table holds
\* no more rows than this
MaxVariants == 4

V1 == <<"V", "1">>
V2 == <<"V", "2">>

StockInput(warehouse, quantity) == [warehouse |-> warehouse, quantity |-> quantity]

InitCatalog ==
    /\ fixtures = [AllFixtures EXCEPT !.Warehouse = @ \cup {OTHER_WAREHOUSE_ID}]
    /\ remote = [products |-> {1, 2},
                 collections |-> {c \in RemoteCollections : c.id = 7}]
    /\ db = EmptyDb
    /\ size_color_cache = <<>>
    /\ def_warehouse_cache = None
    /\ pc = "idle"
    /\ run = NoRun
    /\ result = NoResult
    /\ tasks = <<>>
    /\ before = db
    /\ okRuns = [c \in RemoteCollectionIds |-> 0]
    /\ call = NoCall
    /\ workers = NoWorkers

\* get_node_or_error / get_nodes_or_error finds the rows
VariantExists(variant_id) == \E v \in db.variants : v.id = variant_id

WarehouseIds(stocks_data) == [i \in DOMAIN stocks_data |-> stocks_data[i].warehouse]

\* create_stocks(variant, stocks_data, warehouses): one row per input
create_stocks(stocks, variant_id, stocks_data) ==
    BulkCreateStocks(stocks,
                     [i \in DOMAIN stocks_data |->
                        [warehouse |-> stocks_data[i].warehouse,
                         product_variant |-> variant_id,
                         quantity |-> stocks_data[i].quantity]],
                     1)

(***************************************************************************)
(* ProductVariantBulkCreate and ProductVariantBulkDelete.  The attribute   *)
(* inputs of a variant and the draft order lines are left out: they write  *)
(* no product and no variant.                                              *)
(***************************************************************************)
\* the variant lists of a call: up to two variants, without stocks, with
\* one, or with the same warehouse twice
VariantInputs ==
    LET one == { [sku |-> V1, stocks |-> <<>>],
                 [sku |-> V2, stocks |-> <<StockInput(DEF_WAREHOUSE_ID, 3)>>],
                 [sku |-> V2, stocks |-> <<StockInput(DEF_WAREHOUSE_ID, 3),
                                           StockInput(DEF_WAREHOUSE_ID, 8)>>] }
    IN UNION {[1..n -> one] : n \in 0..2}

\* clean_stocks: errors["stocks"] is set
clean_stocks(stocks_data) == ~Injective(WarehouseIds(stocks_data))

\* validate_duplicated_sku over the list: errors["sku"] is not empty
validate_duplicated_sku(variants) ==
    \E i, j \in DOMAIN variants : i < j /\ variants[i].sku = variants[j].sku

\* clean_instance: the sku is that of a variant of the table
clean_instance(variants_table, variant_data) ==
    \E v \in variants_table : v.sku = variant_data.sku

\* clean_variants and create_variants of ProductVariantBulkCreate: errors
\* is not empty
HasErrors(variants_table, variants) ==
    \/ \E i \in DOMAIN variants :
          variants[i].stocks # <<>> /\ clean_stocks(variants[i].stocks)
    \/ validate_duplicated_sku(variants)
    \/ \E i \in DOMAIN variants : clean_instance(variants_table, variants[i])

RECURSIVE SaveVariantsLoop(_, _, _, _)
\* the for loop of save_variants over the instances i..: save and
\* create_variant_stocks
SaveVariantsLoop(tables, product_id, variants, i) ==
    IF i > Len(variants) THEN tables
    ELSE
      LET instance == [id |-> NextId(tables.variants, "id"), product |-> product_id,
                       sku |-> variants[i].sku, price_amount |-> <<"5">>,
                       weight |-> <<0, "g">>]
      IN SaveVariantsLoop(
           [tables EXCEPT
              !.variants = @ \cup {instance},
              !.stocks = create_stocks(@, instance.id, variants[i].stocks)],
           product_id, variants, i + 1)

\* save_variants(instances, product, cleaned_inputs) on the tables
save_variants(tables, product_id, variants) ==
    LET product == CHOOSE p \in tables.products : p.id = product_id
        saved == SaveVariantsLoop(tables, product_id, variants, 1)
        first == NextId(tables.variants, "id")
    IN IF product.default_variant # 0 THEN [err |-> "ok", db |-> saved]
       ELSE IF variants = <<>> THEN [err |-> "IndexError", db |-> tables]
       ELSE [err |-> "ok",
             db |-> [saved EXCEPT
                       !.products = (@ \ {product})
                           \cup {[product EXCEPT !.default_variant = first]}]]

\* ProductVariantBulkCreate.perform_mutation
ProductVariantBulkCreate ==
    /\ pc = "idle"
    /\ \E product_id \in {1, 2, 9}, variants \in VariantInputs :
          /\ Cardinality(db.variants) + Len(variants) <= MaxVariants
          /\ call' = [op |-> "ProductVariantBulkCreate", product_id |-> product_id,
                      count |-> Len(variants)]
          /\ IF \A p \in db.products : p.id # product_id
             THEN /\ result' = Raised("ValidationError", "get_node_or_error")
                  /\ UNCHANGED db
             ELSE IF HasErrors(db.variants, variants)
             THEN /\ result' = Raised("ValidationError", "perform_mutation")
                  /\ UNCHANGED db
             ELSE LET saved == save_variants(db, product_id, variants)
                  IN /\ result' = Raised(saved.err, IF saved.err = "ok" THEN "none"
                                                    ELSE "save_variants")
                     /\ db' = saved.db
    /\ pc' = "done"
    /\ before' = db
    /\ UNCHANGED <<remote, fixtures, size_color_cache, def_warehouse_cache, run, tasks,
                   okRuns, workers>>

\* the variant lists of a delete: one or two ids
DeleteLists == {ids \in SUBSET (1..(MaxVariants + 1)) : Cardinality(ids) \in {1, 2}}

\* ModelBulkDeleteMutation.perform_mutation on variants: the rows go, with
\* the stocks and attribute values that belong to them, and a
\* default_variant that refers to one of them becomes null
DeleteVariants(tables, pks) ==
    [tables EXCEPT
       !.variants = {v \in @ : v.id \notin pks},
       !.stocks = {k \in @ : k.product_variant \notin pks},
       !.assigned_values = {x \in @ : x.variant \notin pks},
       !.products = {IF p.default_variant \in pks
                     THEN [p EXCEPT !.default_variant = 0] ELSE p : p \in @}]

\* product.variants.first(): the id, 0 for None
FirstVariant(variants_table, product_id) ==
    LET own == {v.id : v \in {w \in variants_table : w.product = product_id}}
    IN IF own = {} THEN 0 ELSE CHOOSE m \in own : \A n \in own : m <= n

\* ProductVariantBulkDelete.perform_mutation
ProductVariantBulkDelete ==
    /\ pc = "idle"
    /\ \E pks \in DeleteLists :
          LET product_pks == {v.product : v \in {w \in db.variants : w.id \in pks}}
              deleted == DeleteVariants(db, pks)
          IN /\ db' = [deleted EXCEPT
                         !.products =
                            {IF p.id \in product_pks /\ p.default_variant = 0
                             THEN [p EXCEPT !.default_variant =
                                                FirstVariant(deleted.variants, p.id)]
                             ELSE p : p \in @}]
             /\ call' = [op |-> "ProductVariantBulkDelete",
                         count |-> Cardinality({v \in db.variants : v.id \in pks})]
    /\ result' = Raised("ok", "none")
    /\ pc' = "done"
    /\ before' = db
    /\ UNCHANGED <<remote, fixtures, size_color_cache, def_warehouse_cache, run, tasks,
                   okRuns, workers>>

NextVariants ==
    \/ Next
    \/ ProductVariantBulkCreate
    \/ ProductVariantBulkDelete

SpecVariants == InitCatalog /\ [][NextVariants]_vars

(***************************************************************************)
(* ProductVariantStocksCreate, ProductVariantStocksUpdate and              *)
(* ProductVariantStocksDelete                                              *)
(***************************************************************************)
UNKNOWN_WAREHOUSE_ID == "w9"

\* the stock lists of a call
StockLists ==
    { <<>>,
      <<StockInput(DEF_WAREHOUSE_ID, 3)>>,
      <<StockInput(OTHER_WAREHOUSE_ID, 8)>>,
      <<StockInput(DEF_WAREHOUSE_ID, 8), StockInput(OTHER_WAREHOUSE_ID, 3)>>,
      <<StockInput(OTHER_WAREHOUSE_ID, 3), StockInput(OTHER_WAREHOUSE_ID, 8)>>,
      <<StockInput(UNKNOWN_WAREHOUSE_ID, 3)>> }

\* the variants of a call: the first variant there is, and one there is not
StockVariantIds == {1, 9}

\* bound of the model: the stock mutations are called while the ids of the
\* Stock table are below this
MaxStocks == 5

\* check_for_duplicates that finds none
check_for_duplicates_none(warehouse_ids) == {}

\* check_for_duplicates(warehouse_ids, errors): the indexes of the errors,
\* the last place of every id that is there more than once
check_for_duplicates(warehouse_ids) ==
    {i \in DOMAIN warehouse_ids :
        /\ \E j \in DOMAIN warehouse_ids : j # i /\ warehouse_ids[j] = warehouse_ids[i]
        /\ \A j \in DOMAIN warehouse_ids : warehouse_ids[j] = warehouse_ids[i] => j <= i}

\* get_nodes_or_error(warehouse_ids, "warehouse", only_type=Warehouse) raises
UnknownWarehouse(warehouse_ids) ==
    \E i \in DOMAIN warehouse_ids : ~Exists("Warehouse", warehouse_ids[i])

\* lines 728-740: the indexes of the inputs whose warehouse has a stock of
\* the variant
ExistingStockIndexes(stocks, variant_id, warehouse_ids) ==
    LET existing_stocks == {k.warehouse : k \in {q \in stocks : q.product_variant = variant_id}}
    IN {i \in DOMAIN warehouse_ids : warehouse_ids[i] \in existing_stocks}

\* ProductVariantStocksCreate.perform_mutation
ProductVariantStocksCreate ==
    /\ pc = "idle"
    /\ NextId(db.stocks, "id") <= MaxStocks
    /\ \E variant_id \in StockVariantIds, stocks \in StockLists :
          LET warehouse_ids == WarehouseIds(stocks)
              errors == check_for_duplicates(warehouse_ids)
                          \cup ExistingStockIndexes(db.stocks, variant_id, warehouse_ids)
          IN /\ call' = [op |-> "ProductVariantStocksCreate", variant_id |-> variant_id,
                         stocks |-> stocks]
             /\ IF ~VariantExists(variant_id)
                THEN /\ result' = Raised("ValidationError", "get_node_or_error")
                     /\ UNCHANGED db
                ELSE IF stocks = <<>>
                THEN /\ result' = Raised("ok", "none")
                     /\ UNCHANGED db
                ELSE IF UnknownWarehouse(warehouse_ids)
                THEN /\ result' = Raised("ValidationError", "get_nodes_or_error")
                     /\ UNCHANGED db
                ELSE IF errors # {}
                THEN /\ result' = Raised("ValidationError", "perform_mutation")
                     /\ UNCHANGED db
                ELSE /\ result' = Raised("ok", "none")
                     /\ db' = [db EXCEPT !.stocks = create_stocks(@, variant_id, stocks)]
    /\ pc' = "done"
    /\ before' = db
    /\ UNCHANGED <<remote, fixtures, size_color_cache, def_warehouse_cache, run, tasks,
                   okRuns, workers>>

RECURSIVE update_or_create_variant_stocks(_, _, _, _)
\* update_or_create_variant_stocks(variant, stocks_data, warehouses) from
\* input i on: get_or_create, then the quantity of the input
update_or_create_variant_stocks(stocks, variant_id, stocks_data, i) ==
    IF i > Len(stocks_data) THEN stocks
    ELSE
      LET found == {k \in stocks : /\ k.product_variant = variant_id
                                   /\ k.warehouse = stocks_data[i].warehouse}
          got == IF found # {} THEN CHOOSE k \in found : \A q \in found : k.id <= q.id
                 ELSE [id |-> NextId(stocks, "id"), warehouse |-> stocks_data[i].warehouse,
                       product_variant |-> variant_id, quantity |-> 0]
      IN update_or_create_variant_stocks(
           (stocks \ {got}) \cup {[got EXCEPT !.quantity = stocks_data[i].quantity]},
           variant_id, stocks_data, i + 1)

\* ProductVariantStocksUpdate.perform_mutation
ProductVariantStocksUpdate ==
    /\ pc = "idle"
    /\ NextId(db.stocks, "id") <= MaxStocks
    /\ \E variant_id \in StockVariantIds, stocks \in StockLists :
          LET warehouse_ids == WarehouseIds(stocks)
          IN /\ call' = [op |-> "ProductVariantStocksUpdate", variant_id |-> variant_id,
                         stocks |-> stocks]
             /\ IF ~VariantExists(variant_id)
                THEN /\ result' = Raised("ValidationError", "get_node_or_error")
                     /\ UNCHANGED db
                ELSE IF stocks = <<>>
                THEN /\ result' = Raised("ok", "none")
                     /\ UNCHANGED db
                ELSE IF check_for_duplicates(warehouse_ids) # {}
                THEN /\ result' = Raised("ValidationError", "perform_mutation")
                     /\ UNCHANGED db
                ELSE IF UnknownWarehouse(warehouse_ids)
                THEN /\ result' = Raised("ValidationError", "get_nodes_or_error")
                     /\ UNCHANGED db
                ELSE /\ result' = Raised("ok", "none")
                     /\ db' = [db EXCEPT !.stocks =
                                  update_or_create_variant_stocks(@, variant_id, stocks, 1)]
    /\ pc' = "done"
    /\ before' = db
    /\ UNCHANGED <<remote, fixtures, size_color_cache, def_warehouse_cache, run, tasks,
                   okRuns, workers>>

\* ProductVariantStocksDelete.perform_mutation
ProductVariantStocksDelete ==
    /\ pc = "idle"
    /\ \E variant_id \in StockVariantIds,
          warehouses_pks \in SUBSET {DEF_WAREHOUSE_ID, OTHER_WAREHOUSE_ID} :
          /\ call' = [op |-> "ProductVariantStocksDelete", variant_id |-> variant_id,
                      warehouse_ids |-> warehouses_pks]
          /\ IF ~VariantExists(variant_id)
             THEN /\ result' = Raised("ValidationError", "get_node_or_error")
                  /\ UNCHANGED db
             ELSE /\ result' = Raised("ok", "none")
                  /\ db' = [db EXCEPT !.stocks =
                               {k \in @ : ~(/\ k.product_variant = variant_id
                                            /\ k.warehouse \in warehouses_pks)}]
    /\ pc' = "done"
    /\ before' = db
    /\ UNCHANGED <<remote, fixtures, size_color_cache, def_warehouse_cache, run, tasks,
                   okRuns, workers>>

NextStocks ==
    \/ Next
    \/ ProductVariantStocksCreate
    \/ ProductVariantStocksUpdate
    \/ ProductVariantStocksDelete

SpecStocks == InitCatalog /\ [][NextStocks]_vars

(***************************************************************************)
(* create_attribute_values in two server processes at once.  Each process  *)
(* has its own size_color_cache; the AttributeValue table is shared.  A    *)
(* step is one query or one insert.                                        *)
(***************************************************************************)
Workers == {1, 2}

\* bound of the model: a call starts while the table has fewer values
MaxValues == 3

\* the value lists of a call
ValueLists == { <<NB1>>, <<NBh, NB1>>, <<<<"S">>>> }

IdleWorker ==
    [pc |-> "idle", attribute_id |-> 0, values |-> <<>>, i |-> 0, exist_attr_val |-> 0,
     cache |-> <<>>, made |-> {}]

InitWorkers ==
    /\ fixtures = AllFixtures
    /\ remote = [products |-> {}, collections |-> {}]
    /\ db = EmptyDb
    /\ size_color_cache = <<>>
    /\ def_warehouse_cache = None
    /\ pc = "idle"
    /\ run = NoRun
    /\ result = NoResult
    /\ tasks = <<>>
    /\ before = db
    /\ okRuns = [c \in RemoteCollectionIds |-> 0]
    /\ call = NoCall
    /\ workers = [w \in Workers |-> IdleWorker]

\* what a worker's cached queryset of its attribute yields now
WorkerRows(w) ==
    Iterator(workers[w].cache[workers[w].attribute_id].values, db.attribute_values)

\* create_attribute_values(attribute_id, values) is called
CallCreateAttributeValues(w) ==
    /\ workers[w].pc = "idle"
    /\ Cardinality(db.attribute_values) < MaxValues
    /\ \E attribute_id \in SizeAndColor, values \in ValueLists :
          workers' = [workers EXCEPT ![w].pc = "cache",
                                     ![w].attribute_id = attribute_id,
                                     ![w].values = values,
                                     ![w].i = 1]
    /\ UNCHANGED <<remote, fixtures, db, size_color_cache, def_warehouse_cache, pc, run,
                   result, tasks, before, okRuns, call>>

\* lines 145-154
LoadCache(w) ==
    /\ workers[w].pc = "cache"
    /\ LET attribute_id == workers[w].attribute_id
       IN workers' = [workers EXCEPT
                        ![w].pc = "lookup",
                        ![w].cache = IF attribute_id \in DOMAIN @ THEN @
                                     ELSE (attribute_id :> CacheEntry(attribute_id)) @@ @]
    /\ UNCHANGED <<remote, fixtures, db, size_color_cache, def_warehouse_cache, pc, run,
                   result, tasks, before, okRuns, call>>

\* lines 156-163: the query of one round of the loop, or the end of the loop
Lookup(w) ==
    /\ workers[w].pc = "lookup"
    /\ IF workers[w].i > Len(workers[w].values)
       THEN workers' = [workers EXCEPT ![w] = [IdleWorker EXCEPT !.cache = workers[w].cache,
                                                               !.made = workers[w].made]]
       ELSE LET val == Normalize(workers[w].values[workers[w].i])
                rows == WorkerRows(w)
                k == NextNamed(rows, val)
            IN workers' = [workers EXCEPT
                             ![w].pc = "create",
                             ![w].exist_attr_val = IF k = 0 THEN 0 ELSE rows[k].pk]
    /\ UNCHANGED <<remote, fixtures, db, size_color_cache, def_warehouse_cache, pc, run,
                   result, tasks, before, okRuns, call>>

\* lines 165-171: the insert of one round, when the query found nothing.
\* made is history: the value created and the rows the query had yielded.
Create(w) ==
    /\ workers[w].pc = "create"
    /\ LET attribute_id == workers[w].attribute_id
           val == Normalize(workers[w].values[workers[w].i])
           new_pk == NextId(db.attribute_values, "pk")
       IN IF workers[w].exist_attr_val # 0
          THEN /\ workers' = [workers EXCEPT ![w].pc = "lookup", ![w].i = @ + 1]
               /\ UNCHANGED db
          ELSE /\ db' = [db EXCEPT !.attribute_values = @ \cup
                           {[pk |-> new_pk,
                             attribute |-> workers[w].cache[attribute_id].attribute,
                             name |-> val]}]
               /\ workers' = [workers EXCEPT
                                ![w].pc = "lookup",
                                ![w].i = @ + 1,
                                ![w].cache[attribute_id].values.pks = @ \cup {new_pk},
                                ![w].made = @ \cup {new_pk}]
    /\ UNCHANGED <<remote, fixtures, size_color_cache, def_warehouse_cache, pc, run, result,
                   tasks, before, okRuns, call>>

NextWorkers ==
    \E w \in Workers :
        \/ CallCreateAttributeValues(w)
        \/ LoadCache(w)
        \/ Lookup(w)
        \/ Create(w)

SpecWorkers == InitWorkers /\ [][NextWorkers]_vars

(***************************************************************************)
(* Properties                                                              *)
(***************************************************************************)
Succeeded == pc = "done" /\ result.outcome = "ok"

\* the collection is made and the run has not failed
Synchronized == pc = "create_product_images" \/ Succeeded

Tag(id) == Str(id)

\* the remote product a local product was imported from
RemoteOf(p) ==
    RemoteProducts[CHOOSE i \in DOMAIN RemoteProducts : Tag(RemoteProducts[i].id) = p.shopifyid]

Absent(x) == x = None \/ x = <<>>

Lacks(rp, option_name) ==
    \A i \in DOMAIN rp.options : Lower(rp.options[i].name) # option_name

LacksSizeOrColor(rp) ==
    Lacks(rp, <<"s", "i", "z", "e">>) \/ Lacks(rp, <<"c", "o", "l", "o", "r">>)

\* the slot of an option that is there
Slot(rp, option_name) ==
    rp.options[CHOOSE i \in DOMAIN rp.options :
                  /\ Lower(rp.options[i].name) = option_name
                  /\ \A j \in DOMAIN rp.options :
                        j > i => Lower(rp.options[j].name) # option_name].position

\* the remote variants that have a sku and a price
Complete(rp) ==
    {i \in DOMAIN rp.variants :
        ~Absent(rp.variants[i].sku) /\ ~Absent(rp.variants[i].price)}

VariantsOf(p) == {v \in db.variants : v.product = p.id}

StocksOf(p) == {k \in db.stocks : \E v \in VariantsOf(p) : k.product_variant = v.id}

\* the remote variant a local variant was made from
RemoteVariantOf(v) ==
    LET rp == RemoteOf(CHOOSE p \in db.products : p.id = v.product)
    IN rp.variants[CHOOSE i \in DOMAIN rp.variants : rp.variants[i].sku = v.sku]

\* the raw color option string of a local variant
ColorOptionOf(v) ==
    LET rp == RemoteOf(CHOOSE p \in db.products : p.id = v.product)
    IN RemoteVariantOf(v).option[Slot(rp, <<"c", "o", "l", "o", "r">>)]

\* the color values associated with a local variant
ColorValuesOf(v) ==
    {a \in db.attribute_values :
        \E x \in db.assigned_values :
            x.variant = v.id /\ x.attribute = DEF_COLOR_ATTRIBUTE_ID /\ x.value = a.pk}

SpaceToHyphen(s) == [i \in DOMAIN s |-> IF s[i] = " " THEN "-" ELSE s[i]]

\* the option values of slot option_name over the remote products that have
\* both options
SeedValues(option_name) ==
    UNION { {rp.variants[j].option[Slot(rp, option_name)] : j \in DOMAIN rp.variants} :
            rp \in {r \in Range(RemoteProducts) : ~LacksSizeOrColor(r)} }

\* every price of the new products of the run is a number
PricesAreNumbers ==
    \A i \in DOMAIN run.shopify_products :
        LET rp == RemoteProduct(run.shopify_products[i])
        IN \A j \in Complete(rp) : ValidDecimal(rp.variants[j].price)

NewCollections == db.collections \ before.collections

NewMenuItems == db.menu_items \ before.menu_items

\* every product of the fetched list is tagged on a product that was there
\* when the run started
AllAlreadyImported ==
    \A i \in DOMAIN run.fetched :
        \E p \in before.products : p.shopifyid = Tag(run.fetched[i])

\* C1: no two local products carry the same shopifyid, and a run whose
\* fetched list holds only products already tagged on a local product
\* creates no Product row and returns no created product.
C1_Idempotent ==
    /\ \A p, q \in db.products : p.shopifyid = q.shopifyid => p = q
    /\ (run.session /\ AllAlreadyImported)
         => db.products = before.products /\ run.products = <<>>

C1_Witness ==
    Succeeded /\ Len(run.fetched) >= 2 /\ AllAlreadyImported

\* C2: when create_products raises, no product, variant, attribute
\* association or stock of the batch is persisted, whatever the position of
\* the product that failed.
C2_Rollback ==
    (pc = "done" /\ result.raised_in = "create_products")
        => /\ db.products = before.products
           /\ db.variants = before.variants
           /\ db.assigned_values = before.assigned_values
           /\ db.stocks = before.stocks

\* the second of three new products fails, on its second variant, after
\* the first product and a variant of the second were created
C2_Witness ==
    /\ pc = "done"
    /\ result = Raised("InvalidOperation", "create_products")
    /\ fixtures = AllFixtures
    /\ run.shopify_products = <<2, 4, 3>>

ExistingNames == {c.name : c \in before.collections}

Free(name) == \A n \in ExistingNames : Lower(n) # Lower(name)

Suffixed(title, n) == title \o <<"(">> \o Str(n) \o <<")">>

ExpectedName(title) ==
    IF Free(title) THEN title
    ELSE Suffixed(title,
                  CHOOSE n \in 2..(Cardinality(ExistingNames) + 2) :
                      /\ Free(Suffixed(title, n))
                      /\ \A m \in 2..(n - 1) : ~Free(Suffixed(title, m)))

\* C3: the created collection is named T when no existing name equals T
\* without regard to case, and otherwise T(N) for the smallest N >= 2 whose
\* T(N) equals no existing name without regard to case; the search ends
\* within as many rounds as there are collections, plus two.
C3_CollectionName ==
    Synchronized =>
        /\ Cardinality(NewCollections) = 1
        /\ \A c \in NewCollections : c.name = ExpectedName(run.collection.title)

\* "S" and "S(2)" exist and "S" is imported as "S(3)"
C3_Witness ==
    /\ Succeeded
    /\ run.collection.title = <<"S">>
    /\ {<<"S">>, <<"S", "(", "2", ")">>} \subseteq ExistingNames
    /\ \E c \in NewCollections : c.name = <<"S", "(", "3", ")">>

\* C4 as claimed: option strings that are equal once every run of spaces
\* is one hyphen resolve to the same AttributeValue, named by that form.
C4_CollapsesRuns ==
    \A v, w \in db.variants :
        CollapseRuns(ColorOptionOf(v)) = CollapseRuns(ColorOptionOf(w))
            => /\ ColorValuesOf(v) = ColorValuesOf(w)
               /\ \A a \in ColorValuesOf(v) : a.name = CollapseRuns(ColorOptionOf(v))

\* C4 as amended: every single space is replaced by one hyphen, nothing is
\* collapsed.  A variant resolves to the one AttributeValue named by its
\* option string with each space as a hyphen, two option strings resolve to
\* the same value exactly when these forms are equal, and every value
\* created is such a form.
C4_ReplacesEachSpace ==
    /\ \A v \in db.variants :
          /\ Cardinality(ColorValuesOf(v)) = 1
          /\ \A a \in ColorValuesOf(v) : a.name = SpaceToHyphen(ColorOptionOf(v))
    /\ \A v, w \in db.variants :
          (SpaceToHyphen(ColorOptionOf(v)) = SpaceToHyphen(ColorOptionOf(w)))
              <=> (ColorValuesOf(v) = ColorValuesOf(w))
    /\ \A a \in db.attribute_values :
          /\ a.attribute = DEF_COLOR_ATTRIBUTE_ID
                => \E raw \in SeedValues(<<"c", "o", "l", "o", "r">>) :
                      a.name = SpaceToHyphen(raw)
          /\ a.attribute = DEF_SIZE_ATTRIBUTE_ID
                => \E raw \in SeedValues(<<"s", "i", "z", "e">>) :
                      a.name = SpaceToHyphen(raw)

\* "N B" and "N-B" share the value "N-B", "N  B" has the value "N--B"
C4_Witness ==
    \E v, w, x \in db.variants :
        /\ ColorOptionOf(v) = NB1 /\ ColorOptionOf(w) = NBh /\ ColorOptionOf(x) = NB2
        /\ ColorValuesOf(v) = ColorValuesOf(w)
        /\ \A a \in ColorValuesOf(v) : a.name = NBh
        /\ \A a \in ColorValuesOf(x) : a.name = <<"N", "-", "-", "B">>
        /\ ColorValuesOf(x) # {}

\* C5: a remote product without a size option or without a color option is
\* created, with no variant and no stock, and its option values are in no
\* attribute's values.
C5_NoVariantsWithoutBothOptions ==
    /\ \A p \in db.products :
          LacksSizeOrColor(RemoteOf(p)) => VariantsOf(p) = {} /\ StocksOf(p) = {}
    /\ (pc = "create_collection" \/ Synchronized)
         => \A i \in DOMAIN run.shopify_products :
               \E p \in db.products : p.shopifyid = Tag(run.shopify_products[i])
    /\ \A a \in db.attribute_values :
          \E raw \in SeedValues(IF a.attribute = DEF_SIZE_ATTRIBUTE_ID
                                 THEN <<"s", "i", "z", "e">>
                                 ELSE <<"c", "o", "l", "o", "r">>) :
              a.name = SpaceToHyphen(raw)

\* one run imported a product without size, one without color and one with both
C5_Witness ==
    /\ Succeeded
    /\ Len(run.products) = 3
    /\ \E p \in db.products : Lacks(RemoteOf(p), <<"s", "i", "z", "e">>)
    /\ \E p \in db.products : Lacks(RemoteOf(p), <<"c", "o", "l", "o", "r">>)
    /\ db.variants # {}

\* C6: the variants of an imported product that has both options are those
\* of its remote variants that have a sku and a price, one each; a remote
\* variant without sku or price gets no variant and no stock, and does not
\* make a run fail whose configured entities exist and whose prices are
\* numbers.
C6_SkipsIncompleteVariants ==
    /\ \A p \in db.products :
          ~LacksSizeOrColor(RemoteOf(p)) =>
             LET rp == RemoteOf(p)
             IN /\ {v.sku : v \in VariantsOf(p)} = {rp.variants[i].sku : i \in Complete(rp)}
                /\ Cardinality(VariantsOf(p)) = Cardinality(Complete(rp))
                /\ Cardinality(StocksOf(p)) = Cardinality(Complete(rp))
    /\ (pc = "done" /\ run.session /\ fixtures = AllFixtures /\ PricesAreNumbers)
         => result.outcome = "ok"

\* variants 1, 4 and 5 of remote product 1 are there, 2 and 3 are not
C6_Witness ==
    /\ Succeeded
    /\ \E p \in db.products :
          /\ p.shopifyid = Tag(1)
          /\ {v.sku : v \in VariantsOf(p)} = {<<"A", "1">>, <<"A", "4">>, <<"A", "5">>}

\* C7: an imported product with both options has one stock per variant,
\* as many as its remote variants with sku and price, each in the default
\* warehouse with the remote variant's inventory_quantity.
C7_Stocks ==
    \A p \in db.products :
        ~LacksSizeOrColor(RemoteOf(p)) =>
           /\ Cardinality(StocksOf(p)) = Cardinality(Complete(RemoteOf(p)))
           /\ \A v \in VariantsOf(p) :
                 LET ks == {k \in db.stocks : k.product_variant = v.id}
                 IN /\ Cardinality(ks) = 1
                    /\ \A k \in ks :
                          /\ k.warehouse = DEF_WAREHOUSE_ID
                          /\ k.quantity = RemoteVariantOf(v).inventory_quantity

C7_Witness ==
    /\ Succeeded
    /\ \E p \in db.products :
          /\ Cardinality(StocksOf(p)) = 3
          /\ {k.quantity : k \in StocksOf(p)} = {5, 0, 2}
          /\ \A k \in StocksOf(p) : k.warehouse = DEF_WAREHOUSE_ID

FetchedTags == {Tag(run.fetched[i]) : i \in DOMAIN run.fetched}

\* C8: the collection a run creates holds the local products of the
\* fetched list, those created by the run and those imported before, each
\* once, and no other product.
C8_Membership ==
    Synchronized =>
        \A c \in NewCollections :
            LET rows == {m \in db.collection_products : m.collection = c.id}
                local == {p.id : p \in {q \in db.products : q.shopifyid \in FetchedTags}}
                earlier == {p.id : p \in {q \in before.products : q.shopifyid \in FetchedTags}}
            IN /\ {m.product : m \in rows} = local
               /\ Cardinality(rows) = Cardinality(local)
               /\ local = Range(run.products) \cup earlier

\* a run attached a product it created and one imported before
C8_Witness ==
    /\ Succeeded
    /\ run.products # <<>>
    /\ run.exist_products # <<>>
    /\ \E c \in NewCollections :
          Cardinality({m \in db.collection_products : m.collection = c.id})
              = Len(run.products) + Len(run.exist_products)

TaggedCollections(id) == {c \in db.collections : c.shopifyid = Tag(id)}

\* C9: a successful run creates one collection and one menu item of the
\* same name; after k successful runs on a remote collection there are k
\* collections tagged with its id and k menu items for them, and no two
\* collections have the same name without regard to case.
C9_OneCollectionPerRun ==
    /\ Succeeded =>
          /\ Cardinality(NewCollections) = 1
          /\ Cardinality(NewMenuItems) = 1
          /\ \A c \in NewCollections, m \in NewMenuItems :
                m.name = c.name /\ m.collection = c.id
    /\ pc # "create_product_images" =>
          \A id \in RemoteCollectionIds :
              /\ Cardinality(TaggedCollections(id)) = okRuns[id]
              /\ Cardinality({m \in db.menu_items :
                                \E c \in TaggedCollections(id) : m.collection = c.id})
                     = okRuns[id]
    /\ \A c, d \in db.collections : Lower(c.name) = Lower(d.name) => c = d

\* the same remote collection was imported twice
C9_Witness ==
    /\ Succeeded
    /\ \E id \in RemoteCollectionIds :
          /\ okRuns[id] = 2
          /\ \E c, d \in TaggedCollections(id) : c # d /\ Lower(c.name) # Lower(d.name)

ReferenceFailure ==
    /\ pc = "done"
    /\ run.session
    /\ fixtures # AllFixtures
    /\ result.outcome \in {"DoesNotExist", "IntegrityError"}

\* C11: a run that fails because a configured reference does not resolve
\* leaves no attribute value, product, variant, stock, collection,
\* membership or menu item of its own.
C11_AbortsBeforeMutation ==
    ReferenceFailure => db = before

\* C13: when create_products raises, the attribute values seeded by
\* create_color_sizes in the same run are rolled back with the products.
C13_SeedingRolledBack ==
    (pc = "done" /\ result.raised_in = "create_products")
        => db.attribute_values = before.attribute_values

\* the local products of the new products of the run
CreatedProducts ==
    {p \in db.products :
        \E i \in DOMAIN run.shopify_products : p.shopifyid = Tag(run.shopify_products[i])}

\* C14: when create_collection raises, at any point, no collection,
\* membership or menu item of the run is persisted, the products, variants
\* and stocks that create_products committed stay, in no new collection,
\* and no image task is scheduled for them.
C14_CollectionScope ==
    (pc = "done" /\ result.raised_in = "create_collection")
        => /\ db.collections = before.collections
           /\ db.collection_products = before.collection_products
           /\ db.menu_items = before.menu_items
           /\ Cardinality(CreatedProducts) = Len(run.shopify_products)
           /\ {p.id : p \in CreatedProducts} = Range(run.products)
           /\ CreatedProducts \cap before.products = {}
           /\ \A p \in CreatedProducts :
                 /\ ~LacksSizeOrColor(RemoteOf(p))
                       => /\ Cardinality(VariantsOf(p)) = Cardinality(Complete(RemoteOf(p)))
                          /\ Cardinality(StocksOf(p)) = Cardinality(Complete(RemoteOf(p)))
                 /\ \A m \in db.collection_products : m.product # p.id
                 /\ \A i \in DOMAIN tasks : tasks[i].product_id # p.id

\* the menu item is refused after the collection and two memberships were
\* written; the product with three variants stays
C14_Witness ==
    /\ pc = "done"
    /\ result = Raised("IntegrityError", "create_collection")
    /\ Len(run.products) = 2
    /\ \E p \in CreatedProducts : Cardinality(StocksOf(p)) = 3

OptionName(attribute_id) ==
    IF attribute_id = DEF_SIZE_ATTRIBUTE_ID
    THEN <<"s", "i", "z", "e">> ELSE <<"c", "o", "l", "o", "r">>

AllVariants(rp) == DOMAIN rp.variants

\* the raw option strings of an attribute over the new products of the run
\* that have both options: of all their variants, or of those with sku and
\* price
BatchValues(attribute_id, complete_only) ==
    UNION { {rp.variants[j].option[Slot(rp, OptionName(attribute_id))] :
               j \in IF complete_only THEN Complete(rp) ELSE AllVariants(rp)} :
            rp \in {r \in {RemoteProduct(run.shopify_products[i]) :
                              i \in DOMAIN run.shopify_products} : ~LacksSizeOrColor(r)} }

ValuesNamed(attribute_id, name) ==
    {a \in db.attribute_values : a.attribute = attribute_id /\ a.name = name}

\* C17: no attribute has two values of the same name, whatever runs came
\* before and whatever option strings a batch holds; and once
\* create_color_sizes has returned, the name of every option string of the
\* batch, with its spaces as hyphens, is a value of its attribute.
C17_UniqueNames ==
    /\ \A a, b \in db.attribute_values :
          (a.attribute = b.attribute /\ a.name = b.name) => a = b
    /\ pc = "create_products" =>
          \A attribute_id \in SizeAndColor :
              \A raw \in BatchValues(attribute_id, FALSE) :
                  ValuesNamed(attribute_id, SpaceToHyphen(raw)) # {}

\* a batch with "N B", "N-B" and "N  B" is seeded a second time, after a
\* run that created their values
C17_Witness ==
    /\ pc = "create_products"
    /\ before.attribute_values # {}
    /\ db.attribute_values = before.attribute_values
    /\ {NB1, NBh, NB2} \subseteq BatchValues(DEF_COLOR_ATTRIBUTE_ID, FALSE)
    /\ Cardinality(ValuesNamed(DEF_COLOR_ATTRIBUTE_ID, NBh)) = 1

\* what the cached queryset of an attribute yields
Known(attribute_id) ==
    Range(Iterator(size_color_cache[attribute_id].values, db.attribute_values))

\* C18: when create_products starts, both attributes are in the cache and
\* the cached values of each hold the name of every option string that
\* create_variants will resolve; no run ends on a value that was not found.
C18_SeedingCoversResolution ==
    /\ pc = "create_products" =>
          /\ SizeAndColor \subseteq DOMAIN size_color_cache
          /\ \A attribute_id \in SizeAndColor :
                \A raw \in BatchValues(attribute_id, TRUE) :
                    \E a \in Known(attribute_id) : a.name = Normalize(raw)
    /\ result.outcome \notin {"StopIteration", "KeyError", "ObjectDoesNotExist"}

\* a run resolved the sizes and colors of three variants
C18_Witness ==
    /\ Succeeded
    /\ 1 \in Range(run.shopify_products)
    /\ SizeAndColor \subseteq DOMAIN size_color_cache
    /\ \E p \in CreatedProducts :
          /\ Cardinality(VariantsOf(p)) = 3
          /\ \A v \in VariantsOf(p) :
                Cardinality({x \in db.assigned_values : x.variant = v.id}) = 2

\* C12: get_attribute_value on an attribute of the cache ends with
\* ObjectDoesNotExist, and no other error, when no cached value has the
\* name of the option string with its spaces as hyphens; otherwise it
\* returns the attribute and a value of that name.
C12_NotFound ==
    (pc = "done" /\ call.op = "get_attribute_value"
         /\ call.attribute_id \in DOMAIN size_color_cache)
      => LET name == SpaceToHyphen(call.value)
             known == Known(call.attribute_id)
         IN IF \A a \in known : a.name # name
            THEN result.outcome = "ObjectDoesNotExist"
            ELSE /\ result.outcome = "ok"
                 /\ call.returned[1] = call.attribute_id
                 /\ \E a \in known : a.pk = call.returned[2] /\ a.name = name

\* C15: the default_variant of every product is null or one of the
\* product's own variants, and a product that has a variant, which an
\* import, a bulk create or a bulk delete left it with, has a
\* default_variant.
C15_DefaultVariant ==
    \A p \in db.products :
        /\ p.default_variant = 0 \/ \E v \in VariantsOf(p) : v.id = p.default_variant
        /\ VariantsOf(p) # {} => p.default_variant # 0

\* the stocks of a table for a variant and a warehouse
StocksAt(stocks, variant_id, warehouse) ==
    {k \in stocks : k.product_variant = variant_id /\ k.warehouse = warehouse}

Repeats(ids) == \E i, j \in DOMAIN ids : i # j /\ ids[i] = ids[j]

\* C16: no variant has two stocks in one warehouse; a
\* ProductVariantStocksCreate whose input names a warehouse twice, or a
\* warehouse the variant has a stock in, ends with the validation error and
\* leaves the stocks as they were; a ProductVariantStocksUpdate leaves one
\* stock per warehouse of its input, with the quantity of the input, adds a
\* row only for a warehouse the variant had no stock in, and leaves every
\* other stock as it was.
C16_StockUniqueness ==
    /\ \A k, q \in db.stocks :
          (k.product_variant = q.product_variant /\ k.warehouse = q.warehouse) => k = q
    /\ (pc = "done" /\ call.op = "ProductVariantStocksCreate"
            /\ \E v \in before.variants : v.id = call.variant_id)
         => LET ids == WarehouseIds(call.stocks)
            IN (\/ Repeats(ids)
                \/ \E i \in DOMAIN ids :
                      StocksAt(before.stocks, call.variant_id, ids[i]) # {})
                 => result.outcome = "ValidationError" /\ db.stocks = before.stocks
    /\ (pc = "done" /\ call.op = "ProductVariantStocksUpdate" /\ result.outcome = "ok")
         => LET ids == WarehouseIds(call.stocks)
                named(k) == k.product_variant = call.variant_id /\ k.warehouse \in Range(ids)
            IN /\ \A i \in DOMAIN ids :
                     LET rows == StocksAt(db.stocks, call.variant_id, ids[i])
                     IN /\ Cardinality(rows) = 1
                        /\ \A k \in rows : k.quantity = call.stocks[i].quantity
               /\ {k \in db.stocks : ~named(k)} = {k \in before.stocks : ~named(k)}
               /\ Cardinality(db.stocks) = Cardinality(before.stocks)
                     + Cardinality({w \in Range(ids) :
                                      StocksAt(before.stocks, call.variant_id, w) = {}})

\* the stock the import made, with quantity 5, was overwritten with 8 by an
\* update that also made the stock of the other warehouse
C16_Witness ==
    /\ pc = "done"
    /\ call.op = "ProductVariantStocksUpdate"
    /\ result.outcome = "ok"
    /\ \E k \in StocksAt(before.stocks, 1, DEF_WAREHOUSE_ID) : k.quantity = 5
    /\ StocksAt(before.stocks, 1, OTHER_WAREHOUSE_ID) = {}
    /\ \E k \in StocksAt(db.stocks, 1, DEF_WAREHOUSE_ID) : k.quantity = 8
    /\ \E k \in StocksAt(db.stocks, 1, OTHER_WAREHOUSE_ID) : k.quantity = 3

\* the process that created a value
MadeBy(a) == {w \in Workers : a.pk \in workers[w].made}

SameName(a, b) == a # b /\ a.attribute = b.attribute /\ a.name = b.name

\* C19: with two processes in create_attribute_values at once, the lookup
\* and the insert of a value are two steps, and uniqueness of names holds
\* only within a process: every value has one creator, a process never
\* creates a name of an attribute twice, and a process that found the name
\* inserts it even when another has inserted it since.
C19_UniqueWithinProcess ==
    /\ \A a \in db.attribute_values : Cardinality(MadeBy(a)) = 1
    /\ \A a, b \in db.attribute_values : SameName(a, b) => MadeBy(a) # MadeBy(b)
    /\ \A w \in Workers :
          (workers[w].pc = "create" /\ workers[w].exist_attr_val # 0)
            => \E a \in db.attribute_values :
                  /\ a.pk = workers[w].exist_attr_val
                  /\ a.attribute = workers[w].attribute_id
                  /\ a.name = SpaceToHyphen(workers[w].values[workers[w].i])

\* both processes found "N-B" absent and both inserted it: the color
\* attribute has two values of that name
C19_Witness ==
    \E a, b \in db.attribute_values :
        /\ SameName(a, b)
        /\ a.attribute = DEF_COLOR_ATTRIBUTE_ID
        /\ a.name = NBh
        /\ MadeBy(a) = {1}
        /\ MadeBy(b) = {2}

====
